---- MODULE Spec2Model ----
(***************************************************************************)
(* Model of the Osmosis staking-withdraw Confirm step                      *)
(* (features/defi/providers/osmosis/.../Withdraw/components/Confirm.tsx).  *)
(*                                                                         *)
(* The component is modelled as React runs it:                             *)
(*  - `state` is the shared workflow state behind StakingWithdrawContext;  *)
(*    every dispatch applies the reducer to it;                            *)
(*  - gasLimit / gasPrice are the component's useState cells;              *)
(*  - `r` is what the last render captured: the values the closures of     *)
(*    that render (handleConfirm, the useEffect dependency list) read;     *)
(*  - JavaScript runs one task at a time: between two awaits a handler     *)
(*    runs to completion (`running`), while distinct handlers interleave   *)
(*    at their awaits.                                                     *)
(***************************************************************************)
EXTENDS Integers, Sequences, FiniteSets, TLC

\* ------------------------------------------------------------------ bounds
MaxInvocations == 2
MaxInputChanges == 1

\* --------------------------------------------------------------- constants
Null == "null"
WithdrawAsset == [assetId |-> "cosmos:osmosis-1/slip44:118", precision |-> 6]
ContractAddress == "osmovaloper1"
Prices == {"1", "2"}
TxIdReturned == "ABC123"

\* ------------------------------------------------- decimal arithmetic (bn)
\* A decimal is m * 10^(-e), normalised: e = 0 or m not divisible by 10.
RECURSIVE Pow10(_)
Pow10(n) == IF n = 0 THEN 1 ELSE 10 * Pow10(n - 1)

RECURSIVE Normalise(_)
Normalise(d) ==
    IF d.e > 0 /\ d.m % 10 = 0 THEN Normalise([m |-> d.m \div 10, e |-> d.e - 1])
    ELSE d

\* bn(s): the decimal strings the model uses, parsed digit for digit.
bn ==
    ("0" :> [m |-> 0, e |-> 0]) @@ ("10" :> [m |-> 10, e |-> 0]) @@
    ("0.5" :> [m |-> 5, e |-> 1]) @@ ("0.025" :> [m |-> 25, e |-> 3]) @@
    ("200000" :> [m |-> 200000, e |-> 0]) @@ ("250000" :> [m |-> 250000, e |-> 0]) @@
    ("1.0" :> [m |-> 1, e |-> 0]) @@ ("2" :> [m |-> 2, e |-> 0]) @@
    ("1.5" :> [m |-> 15, e |-> 1]) @@
    ("1000000" :> [m |-> 1000000, e |-> 0]) @@
    ("2000000" :> [m |-> 2000000, e |-> 0])

\* bnOrZero(n): 0 for null, empty or malformed input.
bnOrZero(s) == IF s \in DOMAIN bn THEN bn[s] ELSE [m |-> 0, e |-> 0]

\* x.times(bn(10).pow(p))
TimesPow10(d, p) ==
    IF p >= d.e THEN [m |-> d.m * Pow10(p - d.e), e |-> 0]
    ELSE Normalise([m |-> d.m, e |-> d.e - p])

\* x.div(bn(10).pow(p))
DivPow10(d, p) == Normalise([m |-> d.m, e |-> d.e + p])

\* x.minus(y)
Minus(x, y) ==
    LET e == IF x.e >= y.e THEN x.e ELSE y.e
    IN  Normalise([m |-> x.m * Pow10(e - x.e) - y.m * Pow10(e - y.e), e |-> e])

\* x.gte(0)
GteZero(x) == x.m >= 0

RECURSIVE FracDigits(_, _)
FracDigits(f, n) ==
    IF n = 0 THEN "" ELSE FracDigits(f \div 10, n - 1) \o ToString(f % 10)

\* BigNumber.toString() of a non-negative decimal
bnToString(d) ==
    IF d.e = 0 THEN ToString(d.m)
    ELSE ToString(d.m \div Pow10(d.e)) \o "." \o FracDigits(d.m % Pow10(d.e), d.e)

\* bnOrZero(x).times(bn(10).pow(precision)).toString()   (lines 124, 126)
ToBaseUnits(x, precision) == bnToString(TimesPow10(bnOrZero(x), precision))

\* Variant of hasEnoughBalanceForGas: the gas estimate is not scaled down to
\* human units before it is subtracted.
hasEnoughBalanceForGasUnscaled(feeAssetBalance, estimatedGasCrypto, precision) ==
    GteZero(Minus(bnOrZero(feeAssetBalance), bnOrZero(estimatedGasCrypto)))

\* Variant of hasEnoughBalanceForGas: the comparison is strict.
hasEnoughBalanceForGasStrict(feeAssetBalance, estimatedGasCrypto, precision) ==
    Minus(bnOrZero(feeAssetBalance),
          DivPow10(bnOrZero(estimatedGasCrypto), precision)).m > 0

\* hasEnoughBalanceForGas (lines 165-167)
hasEnoughBalanceForGas(feeAssetBalance, estimatedGasCrypto, precision) ==
    GteZero(Minus(bnOrZero(feeAssetBalance),
                  DivPow10(bnOrZero(estimatedGasCrypto), precision)))

\* --------------------------------------------------------------- JS values
Truthy(s) == s # Null /\ s # ""

\* ------------------------------------------------------------------- state
VARIABLES
    state,      \* workflow state of StakingWithdrawContext
    gasLimit,   \* useState cell
    gasPrice,   \* useState cell
    price,      \* feeMarketData.price in the store
    wallet,     \* walletState.wallet
    bip44Params,\* selectBIP44ParamsByAccountId
    feeAssetBalance, \* selectPortfolioCryptoHumanBalanceByFilter
    r,          \* values captured by the last render
    fees,       \* getFormFees tasks started by the effect, in start order
    inv,        \* handleConfirm invocations, in call order
    running,    \* the task holding the JS thread: <<>> or <<kind, index>>
    step,       \* workflow step shown (onNext)
    inputChanges, \* price and wallet changes so far
    calc        \* one evaluation of the amount arithmetic, inputs and results

componentVars == <<state, gasLimit, gasPrice, price, wallet, bip44Params,
                   feeAssetBalance, r, fees, inv, running, step, inputChanges>>

vars == <<state, gasLimit, gasPrice, price, wallet, bip44Params, feeAssetBalance,
          r, fees, inv, running, step, inputChanges, calc>>

Idle == <<>>

NoRequest == [validator |-> "", gas |-> "", fee |-> "", value |-> "", action |-> ""]
NoResult == [kind |-> "none", id |-> Null]

\* ---------------------------------------------------------------- reducer
SET_LOADING(s, payload) == [s EXCEPT !.loading = payload]
SET_WITHDRAW_txStatus(s, payload) == [s EXCEPT !.withdraw.txStatus = payload]
SET_TXID(s, payload) == [s EXCEPT !.txid = payload]

\* ------------------------------------------------------------ getFormFees
getFormFees(asset, p) ==
    IF p = "1" THEN [gasLimit |-> "200000", gasPrice |-> "0.5"]
    ELSE [gasLimit |-> "250000", gasPrice |-> "0.025"]

\* ------------------------------------------------------------------ render
\* isDisabled={!hasEnoughBalanceForGas} (line 174); feeAsset is looked up with
\* the same asset id as asset (lines 63-77).
IsDisabled(balance, estimatedGasCrypto) ==
    ~ hasEnoughBalanceForGas(balance, estimatedGasCrypto, WithdrawAsset.precision)

\* The values of one render that handleConfirm (dependency list, lines 148-161)
\* and the fee effect (dependency list, line 95) read.
Snapshot(s, gl, gp, p, w, b) ==
    [loading |-> s.loading, accountId |-> s.accountId,
     cryptoAmount |-> s.withdraw.cryptoAmount,
     gasLimit |-> gl, gasPrice |-> gp, price |-> p, wallet |-> w,
     feeAssetBalance |-> b,
     estimatedGasCrypto |-> s.withdraw.estimatedGasCrypto,
     isDisabled |-> IsDisabled(b, s.withdraw.estimatedGasCrypto)]

NoCalc ==
    [op |-> "none", x |-> Null, precision |-> 0, units |-> "",
     balance |-> <<Null, Null>>, gas |-> <<Null, Null>>,
     enough |-> <<FALSE, FALSE>>]

Init ==
    /\ \E acct \in {Null, "cosmos:osmosis-1:osmo1"} :
         state = [loading |-> FALSE, accountId |-> acct, txid |-> Null,
                  withdraw |-> [cryptoAmount |-> "10", estimatedGasCrypto |-> "0",
                                txStatus |-> Null]]
    /\ gasLimit = Null
    /\ gasPrice = Null
    /\ price \in Prices
    /\ wallet \in {Null, "wallet"}
    /\ bip44Params \in {Null, "m/44'/118'/0'"}
    /\ feeAssetBalance = "1.0"
    /\ r = Snapshot(state, gasLimit, gasPrice, price, wallet, feeAssetBalance)
    /\ fees = << [price |-> price, pc |-> "await"] >>
    /\ inv = << >>
    /\ running = Idle
    /\ step = "Confirm"
    /\ inputChanges = 0
    /\ calc = NoCalc

\* The component re-renders: the closures of the new render read the current
\* values, and the effect of lines 88-95 runs again when a dependency changed.
Render ==
    /\ running = Idle
    /\ r # Snapshot(state, gasLimit, gasPrice, price, wallet, feeAssetBalance)
    /\ r' = Snapshot(state, gasLimit, gasPrice, price, wallet, feeAssetBalance)
    /\ fees' = IF price # r.price THEN Append(fees, [price |-> price, pc |-> "await"])
               ELSE fees
    /\ UNCHANGED <<calc, feeAssetBalance, state, gasLimit, gasPrice, price, wallet, bip44Params, inv,
                   running, step, inputChanges>>

\* feeMarketData.price changes in the store (selectMarketDataById).
ChangePrice ==
    /\ running = Idle
    /\ inputChanges < MaxInputChanges
    /\ \E p \in Prices \ {price} : price' = p
    /\ inputChanges' = inputChanges + 1
    /\ UNCHANGED <<calc, feeAssetBalance, state, gasLimit, gasPrice, wallet, bip44Params, r, fees, inv,
                   running, step>>

\* useWallet: the wallet is connected or disconnected.
ChangeWallet ==
    /\ running = Idle
    /\ inputChanges < MaxInputChanges
    /\ wallet' = IF wallet = Null THEN "wallet" ELSE Null
    /\ inputChanges' = inputChanges + 1
    /\ UNCHANGED <<calc, feeAssetBalance, state, gasLimit, gasPrice, price, bip44Params, r, fees, inv,
                   running, step>>

\* ------------------------------------------- the fee effect (lines 88-95)
\* `await getFormFees(...)` resolves: setGasLimit(gasLimit)
FeesResolve(t) ==
    /\ running = Idle
    /\ fees[t].pc = "await"
    /\ gasLimit' = getFormFees(WithdrawAsset, fees[t].price).gasLimit
    /\ fees' = [fees EXCEPT ![t].pc = "setGasPrice"]
    /\ running' = <<"fees", t>>
    /\ UNCHANGED <<calc, feeAssetBalance, state, gasPrice, price, wallet, bip44Params, r, inv, step,
                   inputChanges>>

\* Variant of SetGasPrice: the gas price is only initialised, never replaced.
SetGasPriceOnce(t) ==
    /\ running = <<"fees", t>>
    /\ fees[t].pc = "setGasPrice"
    /\ gasPrice' = IF gasPrice = Null
                   THEN getFormFees(WithdrawAsset, fees[t].price).gasPrice
                   ELSE gasPrice
    /\ fees' = [fees EXCEPT ![t].pc = "done"]
    /\ running' = Idle
    /\ UNCHANGED <<calc, feeAssetBalance, state, gasLimit, price, wallet, bip44Params, r, inv, step,
                   inputChanges>>

\* setGasPrice(gasPrice)
SetGasPrice(t) ==
    /\ running = <<"fees", t>>
    /\ fees[t].pc = "setGasPrice"
    /\ gasPrice' = getFormFees(WithdrawAsset, fees[t].price).gasPrice
    /\ fees' = [fees EXCEPT ![t].pc = "done"]
    /\ running' = Idle
    /\ UNCHANGED <<calc, feeAssetBalance, state, gasLimit, price, wallet, bip44Params, r, inv, step,
                   inputChanges>>

\* Variant of FeesReject: a failed estimate falls back to default fees.
FeesRejectWithDefaults(t) ==
    /\ running = Idle
    /\ fees[t].pc = "await"
    /\ fees' = [fees EXCEPT ![t].pc = "failed"]
    /\ gasLimit' = "0"
    /\ gasPrice' = "0"
    /\ UNCHANGED <<calc, feeAssetBalance, state, price, wallet, bip44Params, r, inv, running, step,
                   inputChanges>>

\* `await getFormFees(...)` rejects: the async function ends, nothing is set.
FeesReject(t) ==
    /\ running = Idle
    /\ fees[t].pc = "await"
    /\ fees' = [fees EXCEPT ![t].pc = "failed"]
    /\ UNCHANGED <<calc, feeAssetBalance, state, gasLimit, gasPrice, price, wallet, bip44Params, r, inv,
                   running, step, inputChanges>>

\* --------------------------------------- handleConfirm (lines 108-161)
\* Variant of GuardPasses: the wallet is not checked.
GuardPassesWithoutWallet(rr, bp) ==
    /\ ~ rr.loading
    /\ Truthy(bp)
    /\ Truthy(rr.gasLimit)
    /\ Truthy(rr.gasPrice)
    /\ Truthy(rr.accountId)

\* The guard of lines 109-113, on the values the closure captured.
GuardPasses(rr, bp) ==
    /\ ~ rr.loading
    /\ Truthy(bp)
    /\ Truthy(rr.gasLimit)
    /\ Truthy(rr.gasPrice)
    /\ Truthy(rr.accountId)
    /\ Truthy(rr.wallet)

\* The closure values an invocation works with once it has passed the guard.
Captured(rr) ==
    [gasLimit |-> rr.gasLimit, gasPrice |-> rr.gasPrice,
     cryptoAmount |-> rr.cryptoAmount]

NoCapture == [gasLimit |-> Null, gasPrice |-> Null, cryptoAmount |-> Null]

NewInvocation(pc) ==
    [pc |-> pc, guard |-> IF pc = "returned" THEN "rejected" ELSE "passed",
     captured |-> NoCapture, req |-> NoRequest, res |-> NoResult, exc |-> FALSE,
     broadcasts |-> 0, logged |-> 0, advanced |-> 0, outcome |-> "pending"]

\* onConfirm: handleConfirm is called; guard, then dispatch SET_LOADING true.
Confirm ==
    /\ running = Idle
    /\ Len(inv) < MaxInvocations
    /\ IF GuardPasses(r, bip44Params)
       THEN /\ state' = SET_LOADING(state, TRUE)
            /\ inv' = Append(inv, [NewInvocation("call") EXCEPT
                                     !.captured = Captured(r)])
            /\ running' = <<"confirm", Len(inv) + 1>>
       ELSE /\ inv' = Append(inv, [NewInvocation("returned") EXCEPT
                                     !.outcome = "fulfilled"])
            /\ UNCHANGED <<calc, feeAssetBalance, state, running>>
    /\ UNCHANGED <<calc, feeAssetBalance, gasLimit, gasPrice, price, wallet, bip44Params, r, fees, step,
                   inputChanges>>

\* Variant of BuildRequest: the gas price is passed on as the fee, unscaled.
BuildRequestUnscaledFee(rr) ==
    [validator |-> ContractAddress,
     gas |-> rr.gasLimit,
     fee |-> bnToString(bnOrZero(rr.gasPrice)),
     value |-> ToBaseUnits(rr.cryptoAmount, WithdrawAsset.precision),
     action |-> "Unstake"]

\* The request of lines 118-128.
BuildRequest(rr) ==
    [validator |-> ContractAddress,
     gas |-> rr.gasLimit,
     fee |-> ToBaseUnits(rr.gasPrice, WithdrawAsset.precision),
     value |-> ToBaseUnits(rr.cryptoAmount, WithdrawAsset.precision),
     action |-> "Unstake"]

\* Variant of CallStakingAction: the request is built from the current
\* gasLimit / gasPrice cells instead of the values the closure captured.
CallStakingActionWithLiveFees(i) ==
    /\ running = <<"confirm", i>>
    /\ inv[i].pc = "call"
    /\ inv' = [inv EXCEPT ![i].pc = "await",
                          ![i].req = BuildRequest([r EXCEPT !.gasLimit = gasLimit,
                                                            !.gasPrice = gasPrice]),
                          ![i].broadcasts = @ + 1]
    /\ running' = Idle
    /\ UNCHANGED <<calc, feeAssetBalance, state, gasLimit, gasPrice, price, wallet, bip44Params, r,
                   fees, step, inputChanges>>

\* handleStakingAction({...}) is called and awaited.
CallStakingAction(i) ==
    /\ running = <<"confirm", i>>
    /\ inv[i].pc = "call"
    /\ inv' = [inv EXCEPT ![i].pc = "await",
                          ![i].req = BuildRequest(r),
                          ![i].broadcasts = @ + 1]
    /\ running' = Idle
    /\ UNCHANGED <<calc, feeAssetBalance, state, gasLimit, gasPrice, price, wallet, bip44Params, r, fees,
                   step, inputChanges>>

\* What handleStakingAction can settle with: an id, an empty id, or a throw.
BroadcastResults ==
    { [kind |-> "return", id |-> x] : x \in {TxIdReturned, ""} }
      \cup { [kind |-> "throw", id |-> Null] }

\* The awaited promise settles; the handler resumes.
StakingActionSettles(i, res) ==
    /\ running = Idle
    /\ inv[i].pc = "await"
    /\ inv' = [inv EXCEPT ![i].res = res,
                          ![i].exc = (res.kind = "throw"),
                          ![i].pc = IF res.kind = "throw" THEN "catch" ELSE "record"]
    /\ running' = <<"confirm", i>>
    /\ UNCHANGED <<calc, feeAssetBalance, state, gasLimit, gasPrice, price, wallet, bip44Params, r, fees,
                   step, inputChanges>>

\* Lines 130-135: dispatch SET_WITHDRAW { txStatus }.
RecordOutcome(i) ==
    /\ running = <<"confirm", i>>
    /\ inv[i].pc = "record"
    /\ state' = SET_WITHDRAW_txStatus(state,
                   IF Truthy(inv[i].res.id) THEN "success" ELSE "failed")
    /\ inv' = [inv EXCEPT ![i].pc = "check"]
    /\ UNCHANGED <<calc, feeAssetBalance, gasLimit, gasPrice, price, wallet, bip44Params, r, fees,
                   running, step, inputChanges>>

\* Lines 137-141: throw when there is no id, else dispatch SET_TXID.
SetTxId(i) ==
    /\ running = <<"confirm", i>>
    /\ inv[i].pc = "check"
    /\ IF ~ Truthy(inv[i].res.id)
       THEN /\ inv' = [inv EXCEPT ![i].pc = "catch", ![i].exc = TRUE]
            /\ UNCHANGED state
       ELSE /\ state' = SET_TXID(state, inv[i].res.id)
            /\ inv' = [inv EXCEPT ![i].pc = "finally"]
    /\ UNCHANGED <<calc, feeAssetBalance, gasLimit, gasPrice, price, wallet, bip44Params, r, fees,
                   running, step, inputChanges>>

\* Variant of Catch: a failed attempt is submitted once more.
CatchAndRetry(i) ==
    /\ running = <<"confirm", i>>
    /\ inv[i].pc = "catch"
    /\ inv' = [inv EXCEPT ![i].pc = IF inv[i].logged = 0 THEN "call" ELSE "finally",
                          ![i].exc = FALSE,
                          ![i].logged = @ + 1]
    /\ UNCHANGED <<calc, feeAssetBalance, state, gasLimit, gasPrice, price, wallet, bip44Params, r, fees,
                   running, step, inputChanges>>

\* Variant of Catch: the catch block logs and returns, with the reset and the
\* onNext call placed after the try/catch instead of in a finally block.
CatchAndReturn(i) ==
    /\ running = <<"confirm", i>>
    /\ inv[i].pc = "catch"
    /\ inv' = [inv EXCEPT ![i].pc = "returned", ![i].exc = FALSE,
                          ![i].logged = @ + 1, ![i].outcome = "fulfilled"]
    /\ running' = Idle
    /\ UNCHANGED <<calc, feeAssetBalance, state, gasLimit, gasPrice, price, wallet, bip44Params, r, fees,
                   step, inputChanges>>

\* Lines 142-143: catch (error) { moduleLogger.error(...) }
Catch(i) ==
    /\ running = <<"confirm", i>>
    /\ inv[i].pc = "catch"
    /\ inv' = [inv EXCEPT ![i].pc = "finally", ![i].exc = FALSE,
                          ![i].logged = @ + 1]
    /\ UNCHANGED <<calc, feeAssetBalance, state, gasLimit, gasPrice, price, wallet, bip44Params, r, fees,
                   running, step, inputChanges>>

\* Variant of ExitLoading: loading is reset at the end of the try block only.
ExitLoadingOnSuccessOnly(i) ==
    /\ running = <<"confirm", i>>
    /\ inv[i].pc = "finally"
    /\ state' = IF inv[i].logged > 0 THEN state ELSE SET_LOADING(state, FALSE)
    /\ inv' = [inv EXCEPT ![i].pc = "onNext"]
    /\ UNCHANGED <<calc, feeAssetBalance, gasLimit, gasPrice, price, wallet, bip44Params, r, fees,
                   running, step, inputChanges>>

\* Line 145: finally { dispatch SET_LOADING false
ExitLoading(i) ==
    /\ running = <<"confirm", i>>
    /\ inv[i].pc = "finally"
    /\ state' = SET_LOADING(state, FALSE)
    /\ inv' = [inv EXCEPT ![i].pc = "onNext"]
    /\ UNCHANGED <<calc, feeAssetBalance, gasLimit, gasPrice, price, wallet, bip44Params, r, fees,
                   running, step, inputChanges>>

\* Variant of AdvanceWorkflow: onNext is called at the end of the try block only.
AdvanceWorkflowOnSuccessOnly(i) ==
    /\ running = <<"confirm", i>>
    /\ inv[i].pc = "onNext"
    /\ step' = IF inv[i].logged > 0 THEN step ELSE "Status"
    /\ inv' = [inv EXCEPT ![i].pc = "returned",
                          ![i].advanced = IF inv[i].logged > 0 THEN @ ELSE @ + 1,
                          ![i].outcome = IF inv[i].exc THEN "threw" ELSE "fulfilled"]
    /\ running' = Idle
    /\ UNCHANGED <<calc, feeAssetBalance, state, gasLimit, gasPrice, price, wallet, bip44Params, r, fees,
                   inputChanges>>

\* Line 146: onNext(DefiStep.Status) }, then the async function settles.
AdvanceWorkflow(i) ==
    /\ running = <<"confirm", i>>
    /\ inv[i].pc = "onNext"
    /\ step' = "Status"
    /\ inv' = [inv EXCEPT ![i].pc = "returned", ![i].advanced = @ + 1,
                          ![i].outcome = IF inv[i].exc THEN "threw" ELSE "fulfilled"]
    /\ running' = Idle
    /\ UNCHANGED <<calc, feeAssetBalance, state, gasLimit, gasPrice, price, wallet, bip44Params, r, fees,
                   inputChanges>>

\* Line 171: onCancel={() => onNext(DefiStep.Info)}. The host calls it from
\* its cancel button; the component puts no condition on it, so it also runs
\* while a broadcast is in flight.
Cancel ==
    /\ running = Idle
    /\ step' = "Info"
    /\ UNCHANGED <<calc, feeAssetBalance, state, gasLimit, gasPrice, price, wallet, bip44Params, r,
                   fees, inv, running, inputChanges>>

Next ==
    \/ Render
    \/ ChangePrice
    \/ ChangeWallet
    \/ \E t \in DOMAIN fees : FeesResolve(t)
    \/ \E t \in DOMAIN fees : SetGasPrice(t)
    \/ \E t \in DOMAIN fees : FeesReject(t)
    \/ Confirm
    \/ \E i \in DOMAIN inv : CallStakingAction(i)
    \/ \E i \in DOMAIN inv : \E res \in BroadcastResults : StakingActionSettles(i, res)
    \/ \E i \in DOMAIN inv : RecordOutcome(i)
    \/ \E i \in DOMAIN inv : SetTxId(i)
    \/ \E i \in DOMAIN inv : Catch(i)
    \/ \E i \in DOMAIN inv : ExitLoading(i)
    \/ \E i \in DOMAIN inv : AdvanceWorkflow(i)
    \/ Cancel

Spec == Init /\ [][Next]_vars

\* The JavaScript event loop runs every continuation that is ready (the
\* synchronous segments of handleConfirm and of the fee effect), and the
\* in-flight handleStakingAction promise eventually settles.
FairSpec ==
    /\ Spec
    /\ WF_vars(\E i \in DOMAIN inv : CallStakingAction(i))
    /\ WF_vars(\E i \in DOMAIN inv : \E res \in BroadcastResults :
                   StakingActionSettles(i, res))
    /\ WF_vars(\E i \in DOMAIN inv : RecordOutcome(i))
    /\ WF_vars(\E i \in DOMAIN inv : SetTxId(i))
    /\ WF_vars(\E i \in DOMAIN inv : Catch(i))
    /\ WF_vars(\E i \in DOMAIN inv : ExitLoading(i))
    /\ WF_vars(\E i \in DOMAIN inv : AdvanceWorkflow(i))
    /\ WF_vars(\E t \in DOMAIN fees : SetGasPrice(t))

\* ------------------------------------- the confirm button (lines 170-175)
\* The step as the user drives it: handleConfirm is reached through the
\* confirm button of ReusableConfirm, which is inert while isDisabled is set.
GateInit ==
    /\ \E g \in {"0", "1000000"} :
         state = [loading |-> FALSE, accountId |-> "cosmos:osmosis-1:osmo1",
                  txid |-> Null,
                  withdraw |-> [cryptoAmount |-> "10", estimatedGasCrypto |-> g,
                                txStatus |-> Null]]
    /\ gasLimit = Null
    /\ gasPrice = Null
    /\ price = "1"
    /\ wallet = "wallet"
    /\ bip44Params = "m/44'/118'/0'"
    /\ feeAssetBalance \in {"0.5", "1.0"}
    /\ r = Snapshot(state, gasLimit, gasPrice, price, wallet, feeAssetBalance)
    /\ fees = << [price |-> price, pc |-> "await"] >>
    /\ inv = << >>
    /\ running = Idle
    /\ step = "Confirm"
    /\ inputChanges = 0
    /\ calc = NoCalc

\* The fee-asset balance of the account changes in the store.
ChangeBalance ==
    /\ running = Idle
    /\ inputChanges < MaxInputChanges
    /\ \E b \in {"0.5", "1.0"} \ {feeAssetBalance} : feeAssetBalance' = b
    /\ inputChanges' = inputChanges + 1
    /\ UNCHANGED <<calc, state, gasLimit, gasPrice, price, wallet, bip44Params, r,
                   fees, inv, running, step>>

\* The user presses the confirm button of the current render.
ClickConfirm ==
    /\ ~ r.isDisabled
    /\ Confirm

GateNext ==
    \/ Render
    \/ ChangeBalance
    \/ \E t \in DOMAIN fees : FeesResolve(t)
    \/ \E t \in DOMAIN fees : SetGasPrice(t)
    \/ \E t \in DOMAIN fees : FeesReject(t)
    \/ ClickConfirm
    \/ \E i \in DOMAIN inv : CallStakingAction(i)
    \/ \E i \in DOMAIN inv : \E res \in BroadcastResults : StakingActionSettles(i, res)
    \/ \E i \in DOMAIN inv : RecordOutcome(i)
    \/ \E i \in DOMAIN inv : SetTxId(i)
    \/ \E i \in DOMAIN inv : Catch(i)
    \/ \E i \in DOMAIN inv : ExitLoading(i)
    \/ \E i \in DOMAIN inv : AdvanceWorkflow(i)
    \/ Cancel

GateSpec == GateInit /\ [][GateNext]_vars

\* ------------------------------------------- the amount arithmetic alone
\* Inputs of the arithmetic of lines 124-126 and 165-167: decimal strings,
\* malformed strings and absent values; precisions of assets.
Amounts == {"0", "10", "0.5", "0.025", "1.5", "abc", Null}
Precisions == {0, 1, 2, 6}
Balances == {Null, "abc", "0", "0.5", "1.0", "2"}
GasEstimates == {Null, "abc", "0", "2", "1000000", "2000000"}
FeePrecisions == {0, 6}

CalcInit ==
    /\ state = [loading |-> FALSE, accountId |-> "cosmos:osmosis-1:osmo1",
                txid |-> Null,
                withdraw |-> [cryptoAmount |-> "10", estimatedGasCrypto |-> "0",
                              txStatus |-> Null]]
    /\ gasLimit = Null
    /\ gasPrice = Null
    /\ price = "1"
    /\ wallet = "wallet"
    /\ bip44Params = "m/44'/118'/0'"
    /\ feeAssetBalance = "1.0"
    /\ r = Snapshot(state, gasLimit, gasPrice, price, wallet, feeAssetBalance)
    /\ fees = << [price |-> price, pc |-> "await"] >>
    /\ inv = << >>
    /\ running = Idle
    /\ step = "Confirm"
    /\ inputChanges = 0
    /\ \/ \E x \in Amounts, p \in Precisions :
             calc = [NoCalc EXCEPT !.op = "amount", !.x = x, !.precision = p]
       \/ \E b1, b2 \in Balances, g1, g2 \in GasEstimates, p \in FeePrecisions :
             calc = [NoCalc EXCEPT !.op = "balance", !.balance = <<b1, b2>>,
                                   !.gas = <<g1, g2>>, !.precision = p]

\* The fee / value expression of lines 124 and 126 is evaluated.
EvalToBaseUnits ==
    /\ calc.op = "amount"
    /\ calc' = [calc EXCEPT !.op = "toBaseUnits",
                            !.units = ToBaseUnits(calc.x, calc.precision)]
    /\ UNCHANGED componentVars

\* hasEnoughBalanceForGas (lines 165-167) is evaluated, for two renders.
EvalHasEnoughBalanceForGas ==
    /\ calc.op = "balance"
    /\ calc' = [calc EXCEPT
                  !.op = "hasEnough",
                  !.enough = << hasEnoughBalanceForGas(calc.balance[1], calc.gas[1],
                                                       calc.precision),
                                hasEnoughBalanceForGas(calc.balance[2], calc.gas[2],
                                                       calc.precision) >>]
    /\ UNCHANGED componentVars

CalcNext == EvalToBaseUnits \/ EvalHasEnoughBalanceForGas

CalcSpec == CalcInit /\ [][CalcNext]_vars

\* ================================================================= claims
Passed(i) == inv[i].guard = "passed"
Rejected(i) == inv[i].guard = "rejected"
SubmitFailed(res) == res.kind = "throw" \/ ~ Truthy(res.id)

\* C1: whenever an invocation that passed the guard returns (id, empty id or
\* throw), the workflow state has loading = FALSE in the state it returns in.
C1_LoadingFalseAfterInvocation ==
    [][\A i \in DOMAIN inv :
          (Passed(i) /\ inv[i].pc # "returned" /\ inv'[i].pc = "returned")
             => state'.loading = FALSE]_vars

C1_Witness ==
    \E i, j \in DOMAIN inv :
        /\ i # j
        /\ inv[i].pc = "returned" /\ inv[i].res.kind = "throw"
        /\ inv[j].pc = "returned" /\ inv[j].res.id = TxIdReturned
        /\ state.loading = FALSE

\* C2: in every reachable state txStatus = 'success' iff txId is set and
\* non-empty.
C2_SuccessIffTxId ==
    (state.withdraw.txStatus = "success") <=> Truthy(state.txid)

\* C3: at most one handleStakingAction call is in flight at any time.
C3_AtMostOneInFlight ==
    Cardinality({i \in DOMAIN inv : inv[i].pc = "await"}) <= 1

\* C4: a handleConfirm call made while loading is true, gasLimit or gasPrice
\* is null, the derivation params are unresolved or no wallet is connected
\* (as the handler reads them) changes nothing: the workflow state, the step,
\* the fee cells are unchanged and no broadcast is made.
C4_GuardRejectIsNoOp ==
    [][(/\ Len(inv') = Len(inv) + 1
        /\ \/ r.loading
           \/ r.gasLimit = Null
           \/ r.gasPrice = Null
           \/ bip44Params = Null
           \/ r.wallet = Null)
       => /\ state' = state
          /\ step' = step
          /\ gasLimit' = gasLimit /\ gasPrice' = gasPrice
          /\ running' = Idle
          /\ inv'[Len(inv')].pc = "returned"
          /\ inv'[Len(inv')].broadcasts = 0
          /\ inv'[Len(inv')].advanced = 0]_vars

C4_Witness ==
    \E i, j \in DOMAIN inv :
        /\ i < j
        /\ Rejected(i) /\ inv[i].broadcasts = 0
        /\ Passed(j) /\ inv[j].broadcasts = 1

\* C5: once an invocation that passed the guard has left its try/catch, the
\* workflow state holds txStatus = 'success' if the broadcast returned a
\* non-empty id and 'failed' otherwise (empty id or throw).
C5_OutcomeRecorded ==
    \A i \in DOMAIN inv :
        inv[i].pc \in {"finally", "onNext"}
           => state.withdraw.txStatus =
                 IF SubmitFailed(inv[i].res) THEN "failed" ELSE "success"

\* C6: an invocation that passed the guard has called onNext exactly once
\* when it returns, and not before; a rejected invocation never calls it.
C6_AdvanceExactlyOnce ==
    \A i \in DOMAIN inv :
        /\ Rejected(i) => inv[i].advanced = 0
        /\ Passed(i) => inv[i].advanced = IF inv[i].pc = "returned" THEN 1 ELSE 0

C6_Witness ==
    \E i, j \in DOMAIN inv :
        /\ Rejected(i) /\ inv[i].advanced = 0
        /\ Passed(j) /\ inv[j].pc = "returned" /\ SubmitFailed(inv[j].res)
        /\ inv[j].advanced = 1 /\ step = "Status"

\* C7: no invocation ends by throwing, and an invocation whose submit failed
\* (empty id or throw) leaves its try/catch with the error logged and
\* txStatus = 'failed' in the workflow state.
C7_FailureLoggedAndRecorded ==
    \A i \in DOMAIN inv :
        /\ inv[i].outcome # "threw"
        /\ (inv[i].pc \in {"finally", "onNext"} /\ SubmitFailed(inv[i].res))
              => (inv[i].logged = 1 /\ state.withdraw.txStatus = "failed")

\* C8: an invocation that passed the guard calls handleStakingAction exactly
\* once (with action Unstake), also after a failed attempt; a rejected one
\* never calls it.
C8_OneBroadcastPerInvocation ==
    \A i \in DOMAIN inv :
        /\ Rejected(i) => inv[i].broadcasts = 0
        /\ Passed(i) =>
              /\ inv[i].broadcasts = IF inv[i].pc = "call" THEN 0 ELSE 1
              /\ inv[i].pc # "call" => inv[i].req.action = "Unstake"

C8_Witness ==
    \E i \in DOMAIN inv :
        /\ inv[i].pc = "returned" /\ Passed(i)
        /\ SubmitFailed(inv[i].res) /\ inv[i].logged = 1
        /\ inv[i].broadcasts = 1

\* C9: an invocation that has passed the guard uses the gasLimit and gasPrice
\* that getFormFees gives for the asset and fee-asset price of the render the
\* handler belongs to (the current inputs as the component sees them).
C9_FreshEstimateUsed ==
    \A i \in DOMAIN inv :
        inv[i].pc = "call"
           => /\ r.gasLimit = getFormFees(WithdrawAsset, r.price).gasLimit
              /\ r.gasPrice = getFormFees(WithdrawAsset, r.price).gasPrice

\* C10: as long as no getFormFees call has resolved, gasLimit and gasPrice
\* are null (also after a failed call) and every handleConfirm invocation
\* has been rejected by the guard.
C10_BlockedUntilEstimate ==
    (\A t \in DOMAIN fees : fees[t].pc \in {"await", "failed"})
       => /\ gasLimit = Null
          /\ gasPrice = Null
          /\ \A i \in DOMAIN inv : Rejected(i) /\ inv[i].broadcasts = 0

C10_Witness ==
    /\ \A t \in DOMAIN fees : fees[t].pc \in {"await", "failed"}
    /\ \E t \in DOMAIN fees : fees[t].pc = "failed"
    /\ gasLimit = Null /\ gasPrice = Null
    /\ ~ state.loading /\ Truthy(bip44Params) /\ Truthy(state.accountId)
    /\ Truthy(r.wallet)
    /\ \E i \in DOMAIN inv : Rejected(i)

\* C11: whenever loading is true, then (the in-flight handleStakingAction
\* promise settling eventually) a state follows in which loading is false and
\* the workflow has been advanced to the status step.
C11_NeverStuckLoading ==
    state.loading ~> (state.loading = FALSE /\ step = "Status")

C11_Witness ==
    /\ Len(inv) = 1
    /\ Passed(1) /\ inv[1].pc = "returned" /\ inv[1].res.kind = "throw"
    /\ state.loading = FALSE
    /\ step = "Status"

\* Base-unit integer strings and the integers they denote.
IntegerOf ==
    ("0" :> 0) @@ ("25000" :> 25000) @@ ("500000" :> 500000) @@
    ("10000000" :> 10000000)

\* C12: the request handed to handleStakingAction has validator = the
\* contract address, action Unstake, gas = gasLimit, fee = gasPrice * 10^P and
\* value = cryptoAmount * 10^P (P the precision of the withdrawn asset); with
\* P = 6, amount 10, gas price 0.5, gas limit 200000: fee 500000, value 10000000.
C12_RequestFields ==
    \A i \in DOMAIN inv :
        inv[i].broadcasts > 0 =>
            LET c == inv[i].captured
                q == inv[i].req
                P == WithdrawAsset.precision
            IN  /\ q.validator = ContractAddress
                /\ q.action = "Unstake"
                /\ q.gas = c.gasLimit
                /\ q.fee \in DOMAIN IntegerOf
                /\ IntegerOf[q.fee] * Pow10(bn[c.gasPrice].e)
                      = bn[c.gasPrice].m * Pow10(P)
                /\ q.value \in DOMAIN IntegerOf
                /\ IntegerOf[q.value] * Pow10(bn[c.cryptoAmount].e)
                      = bn[c.cryptoAmount].m * Pow10(P)
                /\ (P = 6 /\ c.cryptoAmount = "10" /\ c.gasPrice = "0.5"
                       /\ c.gasLimit = "200000")
                      => (q.fee = "500000" /\ q.value = "10000000"
                            /\ q.gas = "200000")

C12_Witness ==
    \E i \in DOMAIN inv :
        /\ inv[i].broadcasts = 1
        /\ inv[i].captured = [gasLimit |-> "200000", gasPrice |-> "0.5",
                               cryptoAmount |-> "10"]
        /\ inv[i].req.fee = "500000"
        /\ inv[i].req.value = "10000000"

\* round(d * 10^P), half up, of a non-negative decimal d.
RoundedUnits(d, P) ==
    IF P >= d.e THEN d.m * Pow10(P - d.e)
    ELSE (d.m + (Pow10(d.e - P) \div 2)) \div Pow10(d.e - P)

\* C13: for every precision P and every decimal amount A (also with more than
\* P fractional digits) the fee / value field computed from A is the integer
\* string of round(A * 10^P).
C13_BaseUnitsRounded ==
    (calc.op = "toBaseUnits" /\ calc.x \in DOMAIN bn)
       => calc.units = ToString(RoundedUnits(bn[calc.x], calc.precision))

\* Fee-asset balances in tenths and gas estimates in base units, 0 when
\* absent or malformed.
TenthsOf(b) ==
    IF b = "0.5" THEN 5 ELSE IF b = "1.0" THEN 10 ELSE IF b = "2" THEN 20 ELSE 0

BaseUnitsOf(g) ==
    IF g = "2" THEN 2 ELSE IF g = "1000000" THEN 1000000
    ELSE IF g = "2000000" THEN 2000000 ELSE 0

Covers(b, g, P) == TenthsOf(b) * Pow10(P) >= BaseUnitsOf(g) * 10

\* C14: hasEnoughBalanceForGas = (balance - gas / 10^precision >= 0), with an
\* absent or malformed balance or gas estimate taken as 0; balance 1.0 with
\* 2,000,000 base units at precision 6 gives false.
C14_HasEnoughBalanceValue ==
    calc.op = "hasEnough" =>
        /\ \A k \in {1, 2} :
              calc.enough[k] = Covers(calc.balance[k], calc.gas[k], calc.precision)
        /\ \A k \in {1, 2} :
              (calc.balance[k] = "1.0" /\ calc.gas[k] = "2000000"
                 /\ calc.precision = 6) => calc.enough[k] = FALSE

C14_Witness ==
    /\ calc.op = "hasEnough"
    /\ calc.precision = 6
    /\ calc.balance[1] = "1.0" /\ calc.gas[1] = "2000000"
    /\ calc.enough[1] = FALSE
    /\ calc.balance[2] = "abc" /\ calc.gas[2] = Null
    /\ calc.enough[2] = TRUE

\* C15: with the balance fixed a higher gas estimate never turns the result
\* from false to true; with the gas estimate fixed a higher balance never
\* turns it from true to false; with a gas estimate of 0 it is true.
C15_HasEnoughBalanceMonotone ==
    calc.op = "hasEnough" =>
        /\ (/\ TenthsOf(calc.balance[1]) = TenthsOf(calc.balance[2])
            /\ BaseUnitsOf(calc.gas[1]) <= BaseUnitsOf(calc.gas[2]))
              => (calc.enough[2] => calc.enough[1])
        /\ (/\ BaseUnitsOf(calc.gas[1]) = BaseUnitsOf(calc.gas[2])
            /\ TenthsOf(calc.balance[1]) <= TenthsOf(calc.balance[2]))
              => (calc.enough[1] => calc.enough[2])
        /\ \A k \in {1, 2} : BaseUnitsOf(calc.gas[k]) = 0 => calc.enough[k]

C15_Witness ==
    /\ calc.op = "hasEnough"
    /\ calc.balance[1] = calc.balance[2] /\ calc.balance[1] = "1.0"
    /\ calc.gas[1] = "1000000" /\ calc.gas[2] = "2000000"
    /\ calc.precision = 6
    /\ calc.enough[1] = TRUE /\ calc.enough[2] = FALSE

\* C16: loading is true from the dispatch before the handleStakingAction call
\* until the finally block (in particular while a broadcast is in flight), and
\* it is false again when onNext(DefiStep.Status) is called.
C16_LoadingWhileInFlight ==
    \A i \in DOMAIN inv :
        /\ inv[i].pc \in {"call", "await", "record", "check", "catch", "finally"}
              => state.loading = TRUE
        /\ inv[i].pc = "onNext" => state.loading = FALSE

\* C17: the request of a broadcast is the one built from the gasLimit,
\* gasPrice and amount its invocation captured at the guard; while it is in
\* flight no step changes it, and a step that changes the gasLimit or gasPrice
\* cell changes neither the invocation nor the workflow state.
C17_RequestFixedAtGuard ==
    [][\A i \in DOMAIN inv :
          inv[i].pc = "await" =>
             /\ inv[i].req.gas = inv[i].captured.gasLimit
             /\ inv[i].req.fee =
                   (IF inv[i].captured.gasPrice = "0.5" THEN "500000" ELSE "25000")
             /\ inv'[i].req = inv[i].req
             /\ inv'[i].captured = inv[i].captured
             /\ (gasLimit' # gasLimit \/ gasPrice' # gasPrice)
                   => (inv' = inv /\ state' = state /\ step' = step)]_vars

C17_Witness ==
    \E i \in DOMAIN inv :
        /\ inv[i].pc = "returned" /\ inv[i].res.id = TxIdReturned
        /\ state.txid = TxIdReturned /\ state.withdraw.txStatus = "success"
        /\ gasLimit # inv[i].captured.gasLimit
        /\ gasPrice # inv[i].captured.gasPrice
        /\ inv[i].req.gas = inv[i].captured.gasLimit

\* C19: every invocation that passed the guard works with a gasLimit and a
\* gasPrice that are the two results of one getFormFees call.
C19_FeesFromOneEstimate ==
    \A i \in DOMAIN inv :
        Passed(i) =>
            \E p \in Prices :
                /\ inv[i].captured.gasLimit = getFormFees(WithdrawAsset, p).gasLimit
                /\ inv[i].captured.gasPrice = getFormFees(WithdrawAsset, p).gasPrice

C19_Witness ==
    /\ Len(fees) = 2
    /\ fees[1].pc = "done" /\ fees[2].pc = "done"
    /\ \E i \in DOMAIN inv :
          /\ Passed(i) /\ inv[i].broadcasts = 1
          /\ inv[i].captured.gasLimit =
                getFormFees(WithdrawAsset, fees[2].price).gasLimit
          /\ inv[i].captured.gasPrice =
                getFormFees(WithdrawAsset, fees[2].price).gasPrice

\* C18: every render passes isDisabled = TRUE exactly when the fee-asset
\* balance it read does not cover the estimated gas cost it read, and no
\* broadcast is started from a state in which the fee-asset balance of the
\* account does not cover the estimated gas cost of the workflow state: when
\* an invocation has passed the guard and is about to call
\* handleStakingAction, the balance covers the cost.
C18_DisabledWithoutGasBalance ==
    /\ r.isDisabled = ~ Covers(r.feeAssetBalance, r.estimatedGasCrypto,
                               WithdrawAsset.precision)
    /\ \A i \in DOMAIN inv :
          inv[i].pc = "call"
             => Covers(feeAssetBalance, state.withdraw.estimatedGasCrypto,
                       WithdrawAsset.precision)
====
